---- MODULE Spec2Model ----
(***************************************************************************)
(* A model of concatener (src/src/main.rs): input-token resolution, the    *)
(* global sort of the resolved paths, and the concatenation loop.          *)
(*                                                                         *)
(* Strings (tokens, paths, file names) are sequences of byte values, file  *)
(* contents are sequences of bytes, decoded text is a sequence of code     *)
(* points.  The filesystem is a function from nodes (the sequence of names *)
(* from the root) to a record; the working directory is /w.                *)
(***************************************************************************)
EXTENDS Integers, Sequences, FiniteSets, TLC

VARIABLES
    fs,          \* the filesystem: node -> [kind, data, readable]
    fs0,         \* the filesystem as it was when the run started
    inputs,      \* the input tokens, in command-line order (main.rs:38)
    recursive,   \* the --recursive flag (main.rs:39)
    output_path, \* the --output path (main.rs:37)
    pc,          \* where the run is
    next_input,  \* number of input tokens already resolved (loop at main.rs:53)
    resolved,    \* the per-token result lists, in token order
    all_files,   \* main.rs:51
    index,       \* number of files the write loop has finished (main.rs:365)
    processed,   \* per finished file: the path and the text the decoder returned
    err,         \* the error the run ended with, "" when none
    pat_in,      \* matches_pattern called on its own: the two arguments
    pat_out      \* ... and its result

vars == <<fs, fs0, inputs, recursive, output_path, pc, next_input, resolved,
          all_files, index, processed, err, pat_in, pat_out>>

----------------------------------------------------------------------------
(* Bytes the code names.                                                   *)
SLASH == 47
STAR == 42
DOT == 46
TILDE == 126
NL == 10

(* Bounds of the model.                                                    *)
MaxTokens == 2
MaxFiles == 3
MaxPatLen == 3
MaxBytes == 4

----------------------------------------------------------------------------
(* str helpers: contains, starts_with, ends_with, rfind, split.            *)

ContainsChar(s, c) == \E i \in 1..Len(s) : s[i] = c

StartsWith(s, p) == Len(p) <= Len(s) /\ SubSeq(s, 1, Len(p)) = p

EndsWith(s, p) == Len(p) <= Len(s) /\ SubSeq(s, Len(s) - Len(p) + 1, Len(s)) = p

Contains(s, m) == \E i \in 0..(Len(s) - Len(m)) : SubSeq(s, i + 1, i + Len(m)) = m

\* index of the last occurrence of c in s, 0 when there is none
RFind(s, c) ==
    IF ContainsChar(s, c)
    THEN CHOOSE i \in 1..Len(s) : s[i] = c /\ \A j \in (i + 1)..Len(s) : s[j] # c
    ELSE 0

FirstIdx(s, c) == CHOOSE i \in 1..Len(s) : s[i] = c /\ \A j \in 1..(i - 1) : s[j] # c

RECURSIVE Split(_, _)
Split(s, c) ==
    IF ~ContainsChar(s, c) THEN <<s>>
    ELSE LET i == FirstIdx(s, c)
         IN  <<SubSeq(s, 1, i - 1)>> \o Split(SubSeq(s, i + 1, Len(s)), c)

\* byte-wise lexicographic comparison of two strings: -1, 0 or 1
RECURSIVE BytesCmp(_, _)
BytesCmp(a, b) ==
    IF a = <<>> THEN (IF b = <<>> THEN 0 ELSE -1)
    ELSE IF b = <<>> THEN 1
    ELSE IF Head(a) < Head(b) THEN -1
    ELSE IF Head(a) > Head(b) THEN 1
    ELSE BytesCmp(Tail(a), Tail(b))

----------------------------------------------------------------------------
(* std::path: components, the ordering of PathBuf, join.                   *)

RootDir == <<1, <<>>>>
CurDir == <<2, <<>>>>
ParentDir == <<3, <<>>>>
Normal(name) == <<4, name>>

RECURSIVE NormalParts(_)
NormalParts(pieces) ==
    IF pieces = <<>> THEN <<>>
    ELSE LET p == Head(pieces)
         IN  (IF p = <<>> \/ p = <<DOT>> THEN <<>>
              ELSE IF p = <<DOT, DOT>> THEN <<ParentDir>>
              ELSE <<Normal(p)>>) \o NormalParts(Tail(pieces))

\* Path::components: a leading separator is RootDir, a leading "." of a
\* relative path is CurDir, empty pieces and other "." pieces are dropped.
Components(path) ==
    IF path = <<>> THEN <<>>
    ELSE LET pieces == Split(path, SLASH)
         IN  IF Head(path) = SLASH THEN <<RootDir>> \o NormalParts(pieces)
             ELSE IF Head(pieces) = <<DOT>> THEN <<CurDir>> \o NormalParts(Tail(pieces))
             ELSE NormalParts(pieces)

\* Component derives Ord: the variant first, then the name byte-wise
ComponentCmp(a, b) ==
    IF a[1] < b[1] THEN -1
    ELSE IF a[1] > b[1] THEN 1
    ELSE BytesCmp(a[2], b[2])

RECURSIVE ComponentsCmp(_, _)
ComponentsCmp(a, b) ==
    IF a = <<>> THEN (IF b = <<>> THEN 0 ELSE -1)
    ELSE IF b = <<>> THEN 1
    ELSE LET c == ComponentCmp(Head(a), Head(b))
         IN  IF c # 0 THEN c ELSE ComponentsCmp(Tail(a), Tail(b))

\* Ord for PathBuf, which Vec<PathBuf>::sort uses
PathCmp(p, q) == ComponentsCmp(Components(p), Components(q))

\* Path::join with a file name
JoinPath(base, name) ==
    IF base = <<>> THEN name
    ELSE IF base[Len(base)] = SLASH THEN base \o name
    ELSE base \o <<SLASH>> \o name

\* Path::file_name: the last normal component
FileName(path) ==
    LET cs == Components(path)
    IN  IF cs # <<>> /\ cs[Len(cs)][1] = 4 THEN cs[Len(cs)][2] ELSE <<>>

----------------------------------------------------------------------------
(* The filesystem.                                                         *)

CwdNode == <<(<<119>>)>>
CwdStr == <<SLASH, 119>>
HomeStr == <<SLASH, 119>>

RECURSIVE Walk(_, _)
Walk(node, cs) ==
    IF cs = <<>> THEN node
    ELSE LET c == Head(cs)
         IN  IF c[1] = 1 THEN Walk(<<>>, Tail(cs))
             ELSE IF c[1] = 2 THEN Walk(node, Tail(cs))
             ELSE IF c[1] = 3
                  THEN Walk(IF node = <<>> THEN node ELSE SubSeq(node, 1, Len(node) - 1),
                            Tail(cs))
             ELSE Walk(Append(node, c[2]), Tail(cs))

\* the node a path string names, relative paths starting at the working directory
NodeOf(path) == Walk(CwdNode, Components(path))

Exists(fsys, path) == path # <<>> /\ NodeOf(path) \in DOMAIN fsys

\* Path::is_dir, Path::is_file
IsDir(fsys, path) == Exists(fsys, path) /\ fsys[NodeOf(path)].kind = "dir"

IsFile(fsys, path) == Exists(fsys, path) /\ fsys[NodeOf(path)].kind = "file"

Children(fsys, node) ==
    {n \in DOMAIN fsys : Len(n) = Len(node) + 1 /\ SubSeq(n, 1, Len(node)) = node}

DirNodes(fsys) == {n \in DOMAIN fsys : fsys[n].kind = "dir"}

\* all the sequences that list the set S once each
ListingsOf(S) ==
    {s \in [1..Cardinality(S) -> S] : \A i, j \in 1..Cardinality(S) : s[i] = s[j] => i = j}

\* One enumeration order per directory: what fs::read_dir may yield.
RECURSIVE OrdersOver(_, _)
OrdersOver(fsys, dirs) ==
    IF dirs = {} THEN {<<>>}
    ELSE LET d == CHOOSE x \in dirs : TRUE
         IN  {(d :> l) @@ r : l \in ListingsOf(Children(fsys, d)),
                              r \in OrdersOver(fsys, dirs \ {d})}

EnumOrders(fsys) == OrdersOver(fsys, DirNodes(fsys))

Ok(files) == [ok |-> TRUE, files |-> files, err |-> ""]
Err(e) == [ok |-> FALSE, files |-> <<>>, err |-> e]

\* fs::read_dir(dir): the entries' paths, in the order ord gives for that directory
ReadDir(fsys, dir, ord) ==
    IF ~IsDir(fsys, dir) \/ ~fsys[NodeOf(dir)].readable
    THEN Err("DirectoryReadError")
    ELSE LET l == ord[NodeOf(dir)]
         IN  Ok([i \in 1..Len(l) |-> JoinPath(dir, l[i][Len(l[i])])])

----------------------------------------------------------------------------
(* matches_pattern (main.rs:296).                                          *)

\* matches_pattern with the "contains" rule testing the start of the name
MatchesPatternAtStart(filename, pattern) ==
    IF pattern = <<STAR>> THEN TRUE
    ELSE IF StartsWith(pattern, <<STAR>>) /\ EndsWith(pattern, <<STAR>>)
         THEN StartsWith(filename, SubSeq(pattern, 2, Len(pattern) - 1))
    ELSE IF StartsWith(pattern, <<STAR>>)
         THEN EndsWith(filename, SubSeq(pattern, 2, Len(pattern)))
    ELSE IF EndsWith(pattern, <<STAR>>)
         THEN StartsWith(filename, SubSeq(pattern, 1, Len(pattern) - 1))
    ELSE filename = pattern

MatchesPattern(filename, pattern) ==
    IF pattern = <<STAR>> THEN TRUE
    ELSE IF StartsWith(pattern, <<STAR>>) /\ EndsWith(pattern, <<STAR>>)
         THEN Contains(filename, SubSeq(pattern, 2, Len(pattern) - 1))
    ELSE IF StartsWith(pattern, <<STAR>>)
         THEN EndsWith(filename, SubSeq(pattern, 2, Len(pattern)))
    ELSE IF EndsWith(pattern, <<STAR>>)
         THEN StartsWith(filename, SubSeq(pattern, 1, Len(pattern) - 1))
    ELSE filename = pattern

----------------------------------------------------------------------------
(* The collectors (main.rs:168-294, 321-340).                              *)

\* collect_files_in_directory without the is_file test
CollectFilesInDirectoryAll(fsys, dir, ord) == ReadDir(fsys, dir, ord)

CollectFilesInDirectory(fsys, dir, ord) ==
    LET rd == ReadDir(fsys, dir, ord)
        IsF(p) == IsFile(fsys, p)
    IN  IF ~rd.ok THEN rd ELSE Ok(SelectSeq(rd.files, IsF))

\* collect_files_in_directory_with_pattern looking into the subdirectories too
CollectFilesInDirectoryWithPatternBelow(fsys, dir, pattern, ord) ==
    LET rd == ReadDir(fsys, dir, ord)
        Hit(p) == IsFile(fsys, p) /\ MatchesPattern(FileName(p), pattern)
        IsD(p) == IsDir(fsys, p)
        subs == IF rd.ok THEN SelectSeq(rd.files, IsD) ELSE <<>>
        InSub(i) == LET r == ReadDir(fsys, subs[i], ord)
                    IN  IF r.ok THEN SelectSeq(r.files, Hit) ELSE <<>>
        below[i \in 0..Len(subs)] == IF i = 0 THEN <<>> ELSE below[i - 1] \o InSub(i)
    IN  IF ~rd.ok THEN rd ELSE Ok(SelectSeq(rd.files, Hit) \o below[Len(subs)])

CollectFilesInDirectoryWithPattern(fsys, dir, pattern, ord) ==
    LET rd == ReadDir(fsys, dir, ord)
        Hit(p) == IsFile(fsys, p) /\ MatchesPattern(FileName(p), pattern)
    IN  IF ~rd.ok THEN rd ELSE Ok(SelectSeq(rd.files, Hit))

RECURSIVE CollectFilesRecursive(_, _, _)
RECURSIVE WalkRecursive(_, _, _, _)
WalkRecursive(fsys, entries, ord, files) ==
    IF entries = <<>> THEN Ok(files)
    ELSE LET entry_path == Head(entries)
         IN  IF IsFile(fsys, entry_path)
             THEN WalkRecursive(fsys, Tail(entries), ord, Append(files, entry_path))
             ELSE IF IsDir(fsys, entry_path)
             THEN LET sub_files == CollectFilesRecursive(fsys, entry_path, ord)
                  IN  IF ~sub_files.ok THEN sub_files
                      ELSE WalkRecursive(fsys, Tail(entries), ord, files \o sub_files.files)
             ELSE WalkRecursive(fsys, Tail(entries), ord, files)

CollectFilesRecursive(fsys, dir, ord) ==
    LET rd == ReadDir(fsys, dir, ord)
    IN  IF ~rd.ok THEN rd ELSE WalkRecursive(fsys, rd.files, ord, <<>>)

RECURSIVE CollectFilesRecursiveWithPattern(_, _, _, _, _)
RECURSIVE WalkRecursiveWithPattern(_, _, _, _, _)
WalkRecursiveWithPattern(fsys, entries, pattern, ord, files) ==
    IF entries = <<>> THEN Ok(files)
    ELSE LET entry_path == Head(entries)
         IN  IF IsFile(fsys, entry_path)
             THEN WalkRecursiveWithPattern(fsys, Tail(entries), pattern, ord,
                      IF MatchesPattern(FileName(entry_path), pattern)
                      THEN Append(files, entry_path) ELSE files)
             ELSE IF IsDir(fsys, entry_path)
             THEN LET sub == CollectFilesRecursiveWithPattern(fsys, entry_path, pattern,
                                                              ord, files)
                  IN  IF ~sub.ok THEN sub
                      ELSE WalkRecursiveWithPattern(fsys, Tail(entries), pattern, ord,
                                                    sub.files)
             ELSE WalkRecursiveWithPattern(fsys, Tail(entries), pattern, ord, files)

\* files is the accumulator the callers pass by reference
CollectFilesRecursiveWithPattern(fsys, dir, pattern, ord, files) ==
    LET rd == ReadDir(fsys, dir, ord)
    IN  IF ~rd.ok THEN rd
        ELSE WalkRecursiveWithPattern(fsys, rd.files, pattern, ord, files)

----------------------------------------------------------------------------
(* glob::glob, as collect_files_with_wildcard uses it (main.rs:210): the   *)
(* pattern is validated, then expanded one path component at a time; the   *)
(* entries of a directory are yielded in the order of their names.         *)

\* the length of the run of '*' that starts at position i
RECURSIVE StarRun(_, _)
StarRun(p, i) == IF i <= Len(p) /\ p[i] = STAR THEN 1 + StarRun(p, i + 1) ELSE 0

\* Pattern::new accepts "*" and, only as a whole path component, "**"
GlobValid(p) ==
    \A i \in 1..Len(p) :
        (p[i] = STAR /\ (i = 1 \/ p[i - 1] # STAR)) =>
            LET n == StarRun(p, i)
            IN  \/ n = 1
                \/ /\ n = 2
                   /\ (i = 1 \/ p[i - 1] = SLASH)
                   /\ (i + 2 > Len(p) \/ p[i + 2] = SLASH)

\* one path component against one pattern component, '*' any run of bytes
RECURSIVE GlobMatch(_, _)
GlobMatch(name, pat) ==
    IF pat = <<>> THEN name = <<>>
    ELSE IF Head(pat) = STAR
         THEN GlobMatch(name, Tail(pat)) \/ (name # <<>> /\ GlobMatch(Tail(name), pat))
    ELSE name # <<>> /\ Head(name) = Head(pat) /\ GlobMatch(Tail(name), Tail(pat))

\* a set of strings as the sequence sorted byte-wise
RECURSIVE SortedNames(_)
SortedNames(S) ==
    IF S = {} THEN <<>>
    ELSE LET m == CHOOSE x \in S : \A y \in S : BytesCmp(x, y) <= 0
         IN  <<m>> \o SortedNames(S \ {m})

RECURSIVE GlobExpand(_, _, _)
RECURSIVE GlobEach(_, _, _, _)
GlobEach(fsys, base, names, rest) ==
    IF names = <<>> THEN Ok(<<>>)
    ELSE LET one == GlobExpand(fsys, JoinPath(base, Head(names)), rest)
             more == GlobEach(fsys, base, Tail(names), rest)
         IN  IF ~one.ok THEN one ELSE IF ~more.ok THEN more
             ELSE Ok(one.files \o more.files)

\* base "" is the working directory, whose entries glob yields by bare name
GlobExpand(fsys, base, comps) ==
    IF comps = <<>> THEN Ok(<<base>>)
    ELSE LET c == Head(comps)
             here == IF base = <<>> THEN CwdNode ELSE NodeOf(base)
             next == JoinPath(base, c)
         IN  IF ~ContainsChar(c, STAR)
             THEN IF Exists(fsys, next) /\ (Len(comps) = 1 \/ IsDir(fsys, next))
                  THEN GlobExpand(fsys, next, Tail(comps))
                  ELSE Ok(<<>>)
             ELSE IF ~(here \in DOMAIN fsys /\ fsys[here].kind = "dir") THEN Ok(<<>>)
             ELSE IF ~fsys[here].readable THEN Err("GlobError")
             ELSE LET hits == {n[Len(n)] : n \in
                                {k \in Children(fsys, here) :
                                    /\ GlobMatch(k[Len(k)], c)
                                    /\ (Len(comps) = 1 \/ fsys[k].kind = "dir")}}
                  IN  GlobEach(fsys, base, SortedNames(hits), Tail(comps))

NonEmptyPieces(pieces) == LET Keep(p) == p # <<>> /\ p # <<DOT>> IN SelectSeq(pieces, Keep)

Glob(fsys, pattern) ==
    IF ~GlobValid(pattern) THEN Err("InvalidGlobPattern")
    ELSE GlobExpand(fsys, IF StartsWith(pattern, <<SLASH>>) THEN <<SLASH>> ELSE <<>>,
                    NonEmptyPieces(Split(pattern, SLASH)))

----------------------------------------------------------------------------
(* The wildcard collectors and resolve_input_files (main.rs:99-294).       *)

\* collect_files_with_wildcard handing a bare pattern to the recursive walk
CollectFilesWithWildcardDeep(fsys, pattern, ord) ==
    IF ContainsChar(pattern, SLASH)
    THEN LET paths == Glob(fsys, pattern)
             IsF(p) == IsFile(fsys, p)
         IN  IF ~paths.ok THEN paths ELSE Ok(SelectSeq(paths.files, IsF))
    ELSE CollectFilesRecursiveWithPattern(fsys, CwdStr, pattern, ord, <<>>)

CollectFilesWithWildcard(fsys, pattern, ord) ==
    IF ContainsChar(pattern, SLASH)
    THEN LET paths == Glob(fsys, pattern)
             IsF(p) == IsFile(fsys, p)
         IN  IF ~paths.ok THEN paths ELSE Ok(SelectSeq(paths.files, IsF))
    ELSE CollectFilesInDirectoryWithPattern(fsys, CwdStr, pattern, ord)

CollectFilesWithWildcardRecursive(fsys, pattern, ord) ==
    IF ContainsChar(pattern, SLASH)
    THEN LET last_slash == RFind(pattern, SLASH)
             base_dir == SubSeq(pattern, 1, last_slash - 1)
             file_pattern == SubSeq(pattern, last_slash + 1, Len(pattern))
         IN  IF IsDir(fsys, base_dir)
             THEN CollectFilesRecursiveWithPattern(fsys, base_dir, file_pattern, ord, <<>>)
             ELSE Ok(<<>>)
    ELSE CollectFilesRecursiveWithPattern(fsys, <<DOT>>, pattern, ord, <<>>)

\* the leading "~/" replaced by $HOME (main.rs:101-109)
ExpandHome(input) ==
    IF StartsWith(input, <<TILDE, SLASH>>) THEN HomeStr \o Tail(input) ELSE input

\* resolve_input_files taking a missing path for an empty result
ResolvePlainFileLenient(fsys, expanded_input) ==
    IF IsFile(fsys, expanded_input) THEN Ok(<<expanded_input>>) ELSE Ok(<<>>)

\* main.rs:160-165: a single file, or the input does not exist
ResolvePlainFile(fsys, expanded_input) ==
    IF IsFile(fsys, expanded_input) THEN Ok(<<expanded_input>>) ELSE Err("InputNotFound")

\* resolve_input_files asking for a '*' before it asks for a directory
ResolveInputFilesWildcardFirst(fsys, input, rec, ord) ==
    LET expanded_input == ExpandHome(input)
    IN  IF ContainsChar(expanded_input, STAR) /\ ContainsChar(expanded_input, SLASH)
        THEN LET last_slash == RFind(expanded_input, SLASH)
                 dir_path == SubSeq(expanded_input, 1, last_slash - 1)
                 pattern == SubSeq(expanded_input, last_slash + 1, Len(expanded_input))
             IN  IF IsDir(fsys, dir_path)
                 THEN IF rec
                      THEN CollectFilesRecursiveWithPattern(fsys, dir_path, pattern, ord, <<>>)
                      ELSE CollectFilesInDirectoryWithPattern(fsys, dir_path, pattern, ord)
                 ELSE IF rec
                      THEN CollectFilesWithWildcardRecursive(fsys, expanded_input, ord)
                      ELSE CollectFilesWithWildcard(fsys, expanded_input, ord)
        ELSE IF ContainsChar(expanded_input, STAR)
        THEN IF rec
             THEN CollectFilesWithWildcardRecursive(fsys, expanded_input, ord)
             ELSE CollectFilesWithWildcard(fsys, expanded_input, ord)
        ELSE IF IsDir(fsys, expanded_input)
        THEN IF rec
             THEN CollectFilesRecursive(fsys, expanded_input, ord)
             ELSE CollectFilesInDirectory(fsys, expanded_input, ord)
        ELSE ResolvePlainFile(fsys, expanded_input)

ResolveInputFiles(fsys, input, rec, ord) ==
    LET expanded_input == ExpandHome(input)
    IN  IF ContainsChar(expanded_input, STAR) /\ ContainsChar(expanded_input, SLASH)
        THEN LET last_slash == RFind(expanded_input, SLASH)
                 dir_path == SubSeq(expanded_input, 1, last_slash - 1)
                 pattern == SubSeq(expanded_input, last_slash + 1, Len(expanded_input))
             IN  IF IsDir(fsys, dir_path)
                 THEN IF rec
                      THEN CollectFilesRecursiveWithPattern(fsys, dir_path, pattern, ord, <<>>)
                      ELSE CollectFilesInDirectoryWithPattern(fsys, dir_path, pattern, ord)
                 ELSE IF rec
                      THEN CollectFilesWithWildcardRecursive(fsys, expanded_input, ord)
                      ELSE CollectFilesWithWildcard(fsys, expanded_input, ord)
        ELSE IF IsDir(fsys, expanded_input)
        THEN IF rec
             THEN CollectFilesRecursive(fsys, expanded_input, ord)
             ELSE CollectFilesInDirectory(fsys, expanded_input, ord)
        ELSE IF ContainsChar(expanded_input, STAR)
        THEN IF rec
             THEN CollectFilesWithWildcardRecursive(fsys, expanded_input, ord)
             ELSE CollectFilesWithWildcard(fsys, expanded_input, ord)
        ELSE ResolvePlainFile(fsys, expanded_input)

\* the aggregation as a union: a path already present is not added again
ExtendUnique(all, files) ==
    LET New(p) == \A i \in 1..Len(all) : all[i] # p IN all \o SelectSeq(files, New)

\* all_files.extend(files) (main.rs:56)
Extend(all, files) == all \o files

\* the sort comparing the path strings byte by byte
RECURSIVE InsertSortedBytes(_, _)
InsertSortedBytes(sorted, p) ==
    IF sorted = <<>> THEN <<p>>
    ELSE IF BytesCmp(p, Head(sorted)) < 0 THEN <<p>> \o sorted
    ELSE <<Head(sorted)>> \o InsertSortedBytes(Tail(sorted), p)

\* Vec<PathBuf>::sort (main.rs:75): a stable sort by the ordering of PathBuf
RECURSIVE InsertSorted(_, _)
InsertSorted(sorted, p) ==
    IF sorted = <<>> THEN <<p>>
    ELSE IF PathCmp(p, Head(sorted)) < 0 THEN <<p>> \o sorted
    ELSE <<Head(sorted)>> \o InsertSorted(Tail(sorted), p)

\* main without its sort
SortFilesNone(files) == files

RECURSIVE SortFiles(_)
SortFiles(files) ==
    IF files = <<>> THEN <<>>
    ELSE InsertSorted(SortFiles(SubSeq(files, 1, Len(files) - 1)), files[Len(files)])

----------------------------------------------------------------------------
(* Text: UTF-8, UTF-16 and windows-1252 as std and encoding_rs decode      *)
(* them; str::trim_end.                                                    *)

Cont(b) == b \in 128..191

SecondOk(b0, b1) ==
    IF b0 = 224 THEN b1 \in 160..191
    ELSE IF b0 = 237 THEN b1 \in 128..159
    ELSE IF b0 = 240 THEN b1 \in 144..191
    ELSE IF b0 = 244 THEN b1 \in 128..143
    ELSE Cont(b1)

\* the first scalar of s: [ok, cp, n], n the bytes consumed; on malformed
\* input n is the length of the maximal invalid prefix
Utf8Step(s) ==
    LET b0 == s[1]
        need == IF b0 < 128 THEN 1 ELSE IF b0 \in 194..223 THEN 2
                ELSE IF b0 \in 224..239 THEN 3 ELSE IF b0 \in 240..244 THEN 4 ELSE 0
        Bad(n) == [ok |-> FALSE, cp |-> 65533, n |-> n]
    IN  IF need = 0 THEN Bad(1)
        ELSE IF need = 1 THEN [ok |-> TRUE, cp |-> b0, n |-> 1]
        ELSE IF Len(s) < 2 \/ ~SecondOk(b0, s[2]) THEN Bad(1)
        ELSE IF need = 2
             THEN [ok |-> TRUE, cp |-> (b0 - 192) * 64 + (s[2] - 128), n |-> 2]
        ELSE IF Len(s) < 3 \/ ~Cont(s[3]) THEN Bad(2)
        ELSE IF need = 3
             THEN [ok |-> TRUE, n |-> 3,
                   cp |-> (b0 - 224) * 4096 + (s[2] - 128) * 64 + (s[3] - 128)]
        ELSE IF Len(s) < 4 \/ ~Cont(s[4]) THEN Bad(3)
        ELSE [ok |-> TRUE, n |-> 4,
              cp |-> (b0 - 240) * 262144 + (s[2] - 128) * 4096
                     + (s[3] - 128) * 64 + (s[4] - 128)]

\* UTF-8 with replacement: [errors, text]
RECURSIVE Utf8Decode(_)
Utf8Decode(s) ==
    IF s = <<>> THEN [errors |-> FALSE, text |-> <<>>]
    ELSE LET st == Utf8Step(s)
             rest == Utf8Decode(SubSeq(s, st.n + 1, Len(s)))
         IN  [errors |-> ~st.ok \/ rest.errors, text |-> <<st.cp>> \o rest.text]

\* the 16-bit units of s, the odd trailing byte left out
Utf16Units(s, le) ==
    [i \in 1..(Len(s) \div 2) |->
        IF le THEN s[2 * i - 1] + 256 * s[2 * i] ELSE 256 * s[2 * i - 1] + s[2 * i]]

RECURSIVE Utf16Text(_)
Utf16Text(u) ==
    IF u = <<>> THEN [errors |-> FALSE, text |-> <<>>]
    ELSE IF u[1] \in 55296..56319 /\ Len(u) >= 2 /\ u[2] \in 56320..57343
    THEN LET rest == Utf16Text(SubSeq(u, 3, Len(u)))
         IN  [errors |-> rest.errors,
              text |-> <<65536 + (u[1] - 55296) * 1024 + (u[2] - 56320)>> \o rest.text]
    ELSE LET rest == Utf16Text(Tail(u))
         IN  IF u[1] \in 55296..57343
             THEN [errors |-> TRUE, text |-> <<65533>> \o rest.text]
             ELSE [errors |-> rest.errors, text |-> <<u[1]>> \o rest.text]

Utf16Decode(s, le) ==
    LET t == Utf16Text(Utf16Units(s, le))
    IN  IF Len(s) % 2 = 1 THEN [errors |-> TRUE, text |-> Append(t.text, 65533)] ELSE t

\* windows-1252: bytes 0x80..0x9F; every other byte is its own code point
W1252High ==
    <<8364, 129, 8218, 402, 8222, 8230, 8224, 8225, 710, 8240, 352, 8249, 338, 141, 381, 143,
      144, 8216, 8217, 8220, 8221, 8226, 8211, 8212, 732, 8482, 353, 8250, 339, 157, 382, 376>>

W1252Decode(s) ==
    [errors |-> FALSE,
     text |-> [i \in 1..Len(s) |-> IF s[i] \in 128..159 THEN W1252High[s[i] - 127] ELSE s[i]]]

BomUtf8 == <<239, 187, 191>>
BomUtf16LE == <<255, 254>>
BomUtf16BE == <<254, 255>>

\* Encoding::decode: a byte-order mark at the start overrides the encoding
EncodingDecode(enc, s) ==
    IF StartsWith(s, BomUtf8) THEN Utf8Decode(SubSeq(s, 4, Len(s)))
    ELSE IF StartsWith(s, BomUtf16LE) THEN Utf16Decode(SubSeq(s, 3, Len(s)), TRUE)
    ELSE IF StartsWith(s, BomUtf16BE) THEN Utf16Decode(SubSeq(s, 3, Len(s)), FALSE)
    ELSE IF enc = "UTF_16LE" THEN Utf16Decode(s, TRUE)
    ELSE IF enc = "UTF_16BE" THEN Utf16Decode(s, FALSE)
    ELSE W1252Decode(s)

\* read_file_with_encoding_detection, after the bytes are read (main.rs:407-491).
\* The candidates after windows-1252 are tried only when it reported errors,
\* which it does only for a buffer that starts with the UTF-8 mark; they
\* then decode the same bytes as UTF-8 and report the same errors, so the
\* lossy fallback is what is left.
Decode(bytes) ==
    IF StartsWith(bytes, BomUtf16LE)
    THEN EncodingDecode("UTF_16LE", SubSeq(bytes, 3, Len(bytes))).text
    ELSE IF StartsWith(bytes, BomUtf16BE)
    THEN EncodingDecode("UTF_16BE", SubSeq(bytes, 3, Len(bytes))).text
    ELSE IF StartsWith(bytes, BomUtf8) /\ ~Utf8Decode(SubSeq(bytes, 4, Len(bytes))).errors
    THEN Utf8Decode(SubSeq(bytes, 4, Len(bytes))).text
    ELSE IF ~Utf8Decode(bytes).errors THEN Utf8Decode(bytes).text
    ELSE IF ~EncodingDecode("UTF_16LE", bytes).errors
    THEN EncodingDecode("UTF_16LE", bytes).text
    ELSE IF ~EncodingDecode("UTF_16BE", bytes).errors
    THEN EncodingDecode("UTF_16BE", bytes).text
    ELSE IF ~EncodingDecode("WINDOWS_1252", bytes).errors
    THEN EncodingDecode("WINDOWS_1252", bytes).text
    ELSE Utf8Decode(bytes).text

\* the code points with the White_Space property
WhiteSpace ==
    {9, 10, 11, 12, 13, 32, 133, 160, 5760, 8232, 8233, 8239, 8287, 12288} \cup (8192..8202)

\* the text written as it was decoded
TrimEndNone(text) == text

\* str::trim_end
RECURSIVE TrimEnd(_)
TrimEnd(text) ==
    IF text # <<>> /\ text[Len(text)] \in WhiteSpace
    THEN TrimEnd(SubSeq(text, 1, Len(text) - 1))
    ELSE text

\* str::as_bytes: the UTF-8 bytes of a text
Utf8Char(cp) ==
    IF cp < 128 THEN <<cp>>
    ELSE IF cp < 2048 THEN <<192 + (cp \div 64), 128 + (cp % 64)>>
    ELSE IF cp < 65536
         THEN <<224 + (cp \div 4096), 128 + ((cp \div 64) % 64), 128 + (cp % 64)>>
    ELSE <<240 + (cp \div 262144), 128 + ((cp \div 4096) % 64), 128 + ((cp \div 64) % 64),
           128 + (cp % 64)>>

RECURSIVE AsBytes(_)
AsBytes(text) == IF text = <<>> THEN <<>> ELSE Utf8Char(Head(text)) \o AsBytes(Tail(text))

----------------------------------------------------------------------------
(* The filesystems and the command lines the runs start from.              *)

FileNode(data, readable) == [kind |-> "file", data |-> data, readable |-> readable]
DirNode(readable) == [kind |-> "dir", data |-> <<>>, readable |-> readable]

\* the node of a path below the working directory
InCwd(names) == CwdNode \o names

BaseTree == (<<>> :> DirNode(TRUE)) @@ (CwdNode :> DirNode(TRUE))

\* /w/a  /w/d/a  /w/d/e/b : files at three depths
NestedTree ==
    BaseTree
    @@ (InCwd(<< <<97>> >>) :> FileNode(<<97, 10>>, TRUE))
    @@ (InCwd(<< <<100>> >>) :> DirNode(TRUE))
    @@ (InCwd(<< <<100>>, <<97>> >>) :> FileNode(<<239, 187, 191, 100, 97>>, TRUE))
    @@ (InCwd(<< <<100>>, <<101>> >>) :> DirNode(TRUE))
    @@ (InCwd(<< <<100>>, <<101>>, <<98>> >>) :> FileNode(<<98, 32, 32>>, TRUE))

\* /w/d/a beside /w/d.a, and the empty directory /w/e
DottedTree ==
    BaseTree
    @@ (InCwd(<< <<100>> >>) :> DirNode(TRUE))
    @@ (InCwd(<< <<100>>, <<97>> >>) :> FileNode(<<120>>, TRUE))
    @@ (InCwd(<< <<100, 46, 97>> >>) :> FileNode(<<121, 10>>, TRUE))
    @@ (InCwd(<< <<101>> >>) :> DirNode(TRUE))

\* a file and a directory that cannot be read
LockedTree ==
    BaseTree
    @@ (InCwd(<< <<97>> >>) :> FileNode(<<97>>, FALSE))
    @@ (InCwd(<< <<98>> >>) :> FileNode(<<98, 10>>, TRUE))
    @@ (InCwd(<< <<100>> >>) :> DirNode(FALSE))
    @@ (InCwd(<< <<100>>, <<97>> >>) :> FileNode(<<100>>, TRUE))

\* names with a '*' in them: the directory /w/* with the file /w/*/a, the
\* files /w/a* and /w/ab, and /w/d/a
StarTree ==
    BaseTree
    @@ (InCwd(<< <<STAR>> >>) :> DirNode(TRUE))
    @@ (InCwd(<< <<STAR>>, <<97>> >>) :> FileNode(<<115>>, TRUE))
    @@ (InCwd(<< <<97, STAR>> >>) :> FileNode(<<116>>, TRUE))
    @@ (InCwd(<< <<97, 98>> >>) :> FileNode(<<117>>, TRUE))
    @@ (InCwd(<< <<100>> >>) :> DirNode(TRUE))
    @@ (InCwd(<< <<100>>, <<97>> >>) :> FileNode(<<118>>, TRUE))

OldOutput == <<111, 108, 100, 10>>

\* a file is already at the output path
WithOutput(tree, path) == tree @@ (NodeOf(path) :> FileNode(OldOutput, TRUE))

\* A filesystem and an output path: /o, o (in the working directory, where
\* the tokens can find it) or /x/o (no such directory).
Scenarios ==
    {[tree |-> NestedTree, out |-> <<SLASH, 111>>],
     [tree |-> WithOutput(NestedTree, <<111>>), out |-> <<111>>],
     [tree |-> WithOutput(DottedTree, <<SLASH, 111>>), out |-> <<SLASH, 111>>],
     [tree |-> DottedTree, out |-> <<SLASH, 120, SLASH, 111>>],
     [tree |-> LockedTree, out |-> <<SLASH, 111>>]}

\* a  d  *  a*  d/*  e  x/*  */a  x/**a  d/./*  ~/d
Tokens ==
    {<<97>>, <<100>>, <<STAR>>, <<97, STAR>>, <<100, SLASH, STAR>>, <<101>>,
     <<120, SLASH, STAR>>, <<STAR, SLASH, 97>>, <<120, SLASH, STAR, STAR, 97>>,
     <<100, SLASH, DOT, SLASH, STAR>>, <<TILDE, SLASH, 100>>}

TokenLists == UNION {[1..n -> Tokens] : n \in 1..MaxTokens}

Init ==
    /\ \E sc \in Scenarios :
          /\ fs0 = sc.tree
          /\ output_path = sc.out
    /\ fs = fs0
    /\ inputs \in TokenLists
    /\ recursive \in BOOLEAN
    /\ pc = "resolve"
    /\ next_input = 0
    /\ resolved = <<>>
    /\ all_files = <<>>
    /\ index = 0
    /\ processed = <<>>
    /\ err = ""
    /\ pat_in = <<>>
    /\ pat_out = FALSE

----------------------------------------------------------------------------
(* main (main.rs:8-97).                                                    *)

\* the loop over the inputs passing over a token that fails to resolve
ResolveInputSkipsFailure ==
    /\ pc = "resolve"
    /\ next_input < Len(inputs)
    /\ \E ord \in EnumOrders(fs) :
          LET files == ResolveInputFiles(fs, inputs[next_input + 1], recursive, ord)
          IN  /\ resolved' = Append(resolved, files)
              /\ all_files' = IF files.ok THEN Extend(all_files, files.files) ELSE all_files
              /\ err' = IF files.ok THEN err ELSE files.err
              /\ next_input' = next_input + 1
              /\ pc' = IF ~files.ok /\ next_input + 1 = Len(inputs) THEN "error"
                       ELSE IF next_input + 1 = Len(inputs) THEN "resolved" ELSE "resolve"
    /\ UNCHANGED <<fs, fs0, inputs, recursive, output_path, index, processed, pat_in, pat_out>>

\* one turn of the loop at main.rs:53: resolve the next token, extend all_files
ResolveInput ==
    /\ pc = "resolve"
    /\ next_input < Len(inputs)
    /\ \E ord \in EnumOrders(fs) :
          LET files == ResolveInputFiles(fs, inputs[next_input + 1], recursive, ord)
          IN  /\ resolved' = Append(resolved, files)
              /\ IF files.ok
                 THEN /\ all_files' = Extend(all_files, files.files)
                      /\ next_input' = next_input + 1
                      /\ pc' = IF next_input + 1 = Len(inputs) THEN "resolved" ELSE "resolve"
                      /\ err' = err
                 ELSE /\ pc' = "error"
                      /\ err' = files.err
                      /\ UNCHANGED <<all_files, next_input>>
    /\ UNCHANGED <<fs, fs0, inputs, recursive, output_path, index, processed, pat_in, pat_out>>

\* main creating the output file before it finds that there is nothing to do
NothingToDoCreates ==
    /\ pc = "resolved"
    /\ all_files = <<>>
    /\ pc' = "warned"
    /\ fs' = [n \in DOMAIN fs \cup {NodeOf(output_path)} |->
                IF n = NodeOf(output_path) THEN [kind |-> "file", data |-> <<>>,
                                                 readable |-> TRUE]
                ELSE fs[n]]
    /\ UNCHANGED <<fs0, inputs, recursive, output_path, next_input, resolved,
                   all_files, index, processed, err, pat_in, pat_out>>

\* main.rs:69-72: nothing was found, warn and return Ok
NothingToDo ==
    /\ pc = "resolved"
    /\ all_files = <<>>
    /\ pc' = "warned"
    /\ UNCHANGED <<fs, fs0, inputs, recursive, output_path, next_input, resolved,
                   all_files, index, processed, err, pat_in, pat_out>>

\* main.rs:75: sort, and go on to concatenate_files; the per-token lists
\* are gone by then
SortAll ==
    /\ pc = "resolved"
    /\ all_files # <<>>
    /\ all_files' = SortFiles(all_files)
    /\ resolved' = <<>>
    /\ pc' = "create"
    /\ UNCHANGED <<fs, fs0, inputs, recursive, output_path, next_input, index,
                   processed, err, pat_in, pat_out>>

----------------------------------------------------------------------------
(* concatenate_files (main.rs:342-400).                                    *)

OutputNode == NodeOf(output_path)

\* fs::File::create can make or truncate the file
CanCreate(fsys, path) ==
    LET n == NodeOf(path)
    IN  /\ path # <<>>
        /\ n # <<>>
        /\ SubSeq(n, 1, Len(n) - 1) \in DOMAIN fsys
        /\ fsys[SubSeq(n, 1, Len(n) - 1)].kind = "dir"
        /\ (n \in DOMAIN fsys => fsys[n].kind = "file")

\* the output file opened without truncating it
CreatedKeepsContent(fsys, path) ==
    LET n == NodeOf(path)
    IN  IF n \in DOMAIN fsys THEN fsys ELSE fsys @@ (n :> FileNode(<<>>, TRUE))

\* the filesystem after File::create(path) succeeded
Created(fsys, path) ==
    LET n == NodeOf(path)
    IN  IF n \in DOMAIN fsys
        THEN [fsys EXCEPT ![n].data = <<>>]
        ELSE fsys @@ (n :> FileNode(<<>>, TRUE))

\* fs::read can read the file
CanRead(fsys, path) == IsFile(fsys, path) /\ fsys[NodeOf(path)].readable

\* the write loop with a newline after every file
SegmentNewlineAlways(content, at, n) == AsBytes(TrimEnd(content)) \o <<NL>>

\* what one turn of the write loop writes for the file at position
\* index (from 0) of n files whose decoded text is content
Segment(content, at, n) ==
    AsBytes(TrimEnd(content)) \o (IF at < n - 1 THEN <<NL>> ELSE <<>>)

\* main.rs:343
CreateOutput ==
    /\ pc = "create"
    /\ IF CanCreate(fs, output_path)
       THEN /\ fs' = Created(fs, output_path)
            /\ pc' = "write"
            /\ err' = err
       ELSE /\ pc' = "error"
            /\ err' = "OutputCreateError"
            /\ fs' = fs
    /\ index' = 0
    /\ UNCHANGED <<fs0, inputs, recursive, output_path, next_input, resolved,
                   all_files, processed, pat_in, pat_out>>

\* the write loop emptying the output file when a read fails
ProcessFileCleansUp ==
    /\ pc = "write"
    /\ index < Len(all_files)
    /\ LET file_path == all_files[index + 1]
       IN  IF ~CanRead(fs, file_path)
           THEN /\ pc' = "error"
                /\ err' = "FileReadError"
                /\ fs' = [fs EXCEPT ![OutputNode].data = <<>>]
                /\ UNCHANGED <<index, processed>>
           ELSE LET content == Decode(fs[NodeOf(file_path)].data)
                    seg == Segment(content, index, Len(all_files))
                IN  \E written \in {0, Len(AsBytes(TrimEnd(content))), Len(seg)} :
                       /\ fs' = [fs EXCEPT ![OutputNode].data = @ \o SubSeq(seg, 1, written)]
                       /\ IF written = Len(seg)
                          THEN /\ index' = index + 1
                               /\ processed' = Append(processed,
                                                 [path |-> file_path, text |-> content])
                               /\ UNCHANGED <<pc, err>>
                          ELSE /\ pc' = "error"
                               /\ err' = "OutputWriteError"
                               /\ UNCHANGED <<index, processed>>
    /\ UNCHANGED <<fs0, inputs, recursive, output_path, next_input, resolved,
                   all_files, pat_in, pat_out>>

\* one turn of the loop at main.rs:365: read, decode, trim, write, separate.
\* A write can fail; the content write then leaves nothing of this file,
\* the separator write leaves the content without its newline.
ProcessFile ==
    /\ pc = "write"
    /\ index < Len(all_files)
    /\ LET file_path == all_files[index + 1]
       IN  IF ~CanRead(fs, file_path)
           THEN /\ pc' = "error"
                /\ err' = "FileReadError"
                /\ UNCHANGED <<fs, index, processed>>
           ELSE LET content == Decode(fs[NodeOf(file_path)].data)
                    seg == Segment(content, index, Len(all_files))
                IN  \E written \in {0, Len(AsBytes(TrimEnd(content))), Len(seg)} :
                       /\ fs' = [fs EXCEPT ![OutputNode].data = @ \o SubSeq(seg, 1, written)]
                       /\ IF written = Len(seg)
                          THEN /\ index' = index + 1
                               /\ processed' = Append(processed,
                                                 [path |-> file_path, text |-> content])
                               /\ UNCHANGED <<pc, err>>
                          ELSE /\ pc' = "error"
                               /\ err' = "OutputWriteError"
                               /\ UNCHANGED <<index, processed>>
    /\ UNCHANGED <<fs0, inputs, recursive, output_path, next_input, resolved,
                   all_files, pat_in, pat_out>>

\* main.rs:396: the loop is over, flush and return Ok
Flush ==
    /\ pc = "write"
    /\ index = Len(all_files)
    /\ pc' = "done"
    /\ UNCHANGED <<fs, fs0, inputs, recursive, output_path, next_input, resolved,
                   all_files, index, processed, err, pat_in, pat_out>>

Next == ResolveInput \/ NothingToDo \/ SortAll \/ CreateOutput \/ ProcessFile \/ Flush

Spec == Init /\ [][Next]_vars

----------------------------------------------------------------------------
(* concatenate_files called on its own, as the tests at main.rs:559-592    *)
(* call it: a list of files in /w with any contents and a file already at  *)
(* /o.  Either the output path is /o and one of the files may be           *)
(* unreadable, or the output path is one of the files of the list.         *)

\* "", "x", " \n", "x\ny\n\n", UTF-8 mark + e-acute + "\n", UTF-16LE mark + "x\n"
Contents ==
    {<<>>, <<120>>, <<32, 10>>, <<120, 10, 121, 10, 10>>,
     <<239, 187, 191, 195, 169, 10>>, <<255, 254, 120, 0, 10, 0>>}

\* /w/a, /w/b, ...
NthFile(i) == JoinPath(CwdStr, <<96 + i>>)

ConcatTree(data, bad) ==
    LET n == Len(data)
        files == [node \in {NodeOf(NthFile(i)) : i \in 1..n} |->
                    LET i == CHOOSE k \in 1..n : NodeOf(NthFile(k)) = node
                    IN  FileNode(data[i], i # bad)]
    IN  WithOutput(BaseTree, <<SLASH, 111>>) @@ files

InitConcat ==
    /\ \E n \in 1..MaxFiles :
          \E data \in [1..n -> Contents], bad \in 0..n :
             /\ fs0 = ConcatTree(data, bad)
             /\ all_files = [i \in 1..n |-> NthFile(i)]
             /\ output_path \in {<<SLASH, 111>>} \cup
                                (IF bad = 0 THEN {NthFile(i) : i \in 1..n} ELSE {})
    /\ fs = fs0
    /\ inputs = <<>>
    /\ recursive = FALSE
    /\ pc = "create"
    /\ next_input = 0
    /\ resolved = <<>>
    /\ index = 0
    /\ processed = <<>>
    /\ err = ""
    /\ pat_in = <<>>
    /\ pat_out = FALSE

NextConcat == CreateOutput \/ ProcessFile \/ Flush

SpecConcat == InitConcat /\ [][NextConcat]_vars

----------------------------------------------------------------------------
(* matches_pattern called on its own, as the test at main.rs:737 calls it. *)

\* the strings over 'a', 'A' and '*' of length up to MaxPatLen
PatStrings == UNION {[1..n -> {97, 65, STAR}] : n \in 0..MaxPatLen}

InitMatch ==
    /\ pat_in \in PatStrings \X PatStrings
    /\ pat_out = FALSE
    /\ pc = "match"
    /\ fs0 = BaseTree
    /\ fs = fs0
    /\ output_path = <<SLASH, 111>>
    /\ inputs = <<>>
    /\ recursive = FALSE
    /\ next_input = 0
    /\ resolved = <<>>
    /\ all_files = <<>>
    /\ index = 0
    /\ processed = <<>>
    /\ err = ""

CallMatchesPattern ==
    /\ pc = "match"
    /\ pat_out' = MatchesPattern(pat_in[1], pat_in[2])
    /\ pc' = "matched"
    /\ UNCHANGED <<fs, fs0, inputs, recursive, output_path, next_input, resolved,
                   all_files, index, processed, err, pat_in>>

NextMatch == CallMatchesPattern

SpecMatch == InitMatch /\ [][NextMatch]_vars

----------------------------------------------------------------------------
(* resolve_input_files on its own (main.rs:99-166): one token, in each of  *)
(* the filesystems.                                                        *)

InitResolve ==
    /\ fs0 \in {NestedTree, DottedTree, LockedTree, StarTree}
    /\ fs = fs0
    /\ inputs \in [1..1 -> Tokens]
    /\ recursive \in BOOLEAN
    /\ output_path = <<SLASH, 111>>
    /\ pc = "resolve"
    /\ next_input = 0
    /\ resolved = <<>>
    /\ all_files = <<>>
    /\ index = 0
    /\ processed = <<>>
    /\ err = ""
    /\ pat_in = <<>>
    /\ pat_out = FALSE

NextResolve == ResolveInput

SpecResolve == InitResolve /\ [][NextResolve]_vars

----------------------------------------------------------------------------
(* read_file_with_encoding_detection on its own (main.rs:402-492): one    *)
(* file of up to MaxBytes bytes, taken from the bytes the rules look for:  *)
(* 'A', NUL, the bytes of the three byte-order marks, a high surrogate's   *)
(* high byte and a newline.                                                *)

SampleBytes == {65, 0, 10, 239, 187, 191, 254, 255, 216}

InitDecode ==
    /\ \E n \in 0..MaxBytes : \E data \in [1..n -> SampleBytes] : \E readable \in BOOLEAN :
          fs0 = BaseTree @@ (InCwd(<< <<97>> >>) :> FileNode(data, readable))
    /\ fs = fs0
    /\ all_files = <<CwdStr \o <<SLASH, 97>>>>
    /\ inputs = <<>>
    /\ recursive = FALSE
    /\ output_path = <<SLASH, 111>>
    /\ pc = "read"
    /\ next_input = 0
    /\ resolved = <<>>
    /\ index = 0
    /\ processed = <<>>
    /\ err = ""
    /\ pat_in = <<>>
    /\ pat_out = FALSE

\* main.rs:404 and on: read the bytes, decode them
ReadFileWithEncodingDetection ==
    /\ pc = "read"
    /\ IF CanRead(fs, all_files[1])
       THEN /\ processed' = <<[path |-> all_files[1],
                               text |-> Decode(fs[NodeOf(all_files[1])].data)]>>
            /\ pc' = "decoded"
            /\ err' = err
       ELSE /\ pc' = "error"
            /\ err' = "FileReadError"
            /\ processed' = processed
    /\ UNCHANGED <<fs, fs0, inputs, recursive, output_path, next_input, resolved,
                   all_files, index, pat_in, pat_out>>

NextDecode == ReadFileWithEncodingDetection

SpecDecode == InitDecode /\ [][NextDecode]_vars

----------------------------------------------------------------------------
(* What the properties below speak of.                                     *)

\* concatenate_files has been called: all_files is the sorted list
AfterSort ==
    \/ pc \in {"create", "write", "done"}
    \/ pc = "error" /\ err \in {"OutputCreateError", "FileReadError", "OutputWriteError"}

Count(seq, x) == Cardinality({i \in 1..Len(seq) : seq[i] = x})

SameBag(a, b) == \A x \in {a[i] : i \in 1..Len(a)} \cup {b[i] : i \in 1..Len(b)} :
                    Count(a, x) = Count(b, x)

NodesOf(paths) == [i \in 1..Len(paths) |-> NodeOf(paths[i])]

NodeSet(paths) == {NodeOf(paths[i]) : i \in 1..Len(paths)}

FileNodes(fsys) == {n \in DOMAIN fsys : fsys[n].kind = "file"}

\* d is n or an ancestor of n
Within(d, n) == Len(d) <= Len(n) /\ SubSeq(n, 1, Len(d)) = d

\* text without its trailing white space: up to its last other code point
Stripped(text) ==
    LET keep == {i \in 1..Len(text) : text[i] \notin WhiteSpace}
    IN  SubSeq(text, 1, IF keep = {} THEN 0 ELSE CHOOSE i \in keep : \A j \in keep : j <= i)

\* the UTF-8 bytes of the texts, one newline between each two
RECURSIVE JoinLines(_)
JoinLines(texts) ==
    IF texts = <<>> THEN <<>>
    ELSE IF Len(texts) = 1 THEN AsBytes(texts[1])
    ELSE AsBytes(texts[1]) \o <<NL>> \o JoinLines(Tail(texts))

OutputData == fs[OutputNode].data

EndsWithNewline(bytes) == bytes # <<>> /\ bytes[Len(bytes)] = NL

\* the enumeration that yields every directory's entries by name
ByName(fsys) ==
    [d \in DirNodes(fsys) |->
        LET names == SortedNames({n[Len(n)] : n \in Children(fsys, d)})
        IN  [i \in 1..Len(names) |-> Append(d, names[i])]]

\* what token number k resolves to in the filesystem the run started from,
\* under the enumeration by name
ByNameResult(token) == ResolveInputFiles(fs0, token, recursive, ByName(fs0))

RECURSIVE TokensSorted(_)
TokensSorted(tokens) ==
    IF tokens = <<>> THEN <<>>
    ELSE LET m == CHOOSE i \in 1..Len(tokens) :
                     \A j \in 1..Len(tokens) : BytesCmp(tokens[i], tokens[j]) <= 0
         IN  <<tokens[m]>> \o
             TokensSorted([i \in 1..(Len(tokens) - 1) |->
                              IF i < m THEN tokens[i] ELSE tokens[i + 1]])

RECURSIVE AggregateByName(_)
AggregateByName(tokens) ==
    IF tokens = <<>> THEN <<>>
    ELSE ByNameResult(Head(tokens)).files \o AggregateByName(Tail(tokens))

\* The run to compare with: the same tokens in byte order, every directory
\* enumerated by name.
ReferenceFiles == SortFiles(AggregateByName(TokensSorted(inputs)))

\* the output of the write loop over files, file at onwards, out written so far
RECURSIVE ReferenceOutput(_, _, _)
ReferenceOutput(files, at, out) ==
    IF at > Len(files) THEN out
    ELSE LET n == NodeOf(files[at])
             data == IF n = OutputNode THEN out ELSE fs0[n].data
         IN  ReferenceOutput(files, at + 1, out \o Segment(Decode(data), at - 1, Len(files)))

\* the expanded token number k
TokenAt(k) == ExpandHome(inputs[k])

HasStar(t) == ContainsChar(t, STAR)

HasSlash(t) == ContainsChar(t, SLASH)

DirPart(t) == SubSeq(t, 1, RFind(t, SLASH) - 1)

----------------------------------------------------------------------------
(* The properties.                                                         *)

\* C1: after a successful concatenate_files over f_1..f_n the output file
\* holds t_1 \n t_2 \n ... \n t_n and nothing else, t_i the text the decoder
\* returned for f_i without its trailing white space; every file is read once,
\* in order, and a file that is not the output file itself is read as it was
\* before the call.
C1_OutputIsJoinOfTrimmedTexts ==
    pc = "done" =>
        /\ Len(processed) = Len(all_files)
        /\ \A i \in 1..Len(all_files) :
              /\ processed[i].path = all_files[i]
              /\ NodeOf(all_files[i]) # OutputNode =>
                    processed[i].text = Decode(fs0[NodeOf(all_files[i])].data)
        /\ OutputData = JoinLines([i \in 1..Len(processed) |-> Stripped(processed[i].text)])

C1_Witness ==
    /\ pc = "done"
    /\ Len(all_files) = 3
    /\ OutputNode \notin NodeSet(all_files)
    /\ \E i \in 1..3 : Stripped(processed[i].text) # processed[i].text
    /\ \E i \in 1..3 : Stripped(processed[i].text) # <<>>

\* C2 as stated: after a successful concatenate_files the output file does
\* not end with a newline, whatever the files hold.
C2_NeverEndsWithNewline == pc = "done" => ~EndsWithNewline(OutputData)

\* C2, amended: nothing is written after the last file's trimmed text, so
\* the output ends with a newline exactly when there are two or more files
\* and the last one's trimmed text is empty: the newline is then the
\* separator written after the file before it.
C2_NewlineOnlyBeforeEmptyLast ==
    pc = "done" =>
        (EndsWithNewline(OutputData) <=>
            /\ Len(all_files) >= 2
            /\ Stripped(processed[Len(processed)].text) = <<>>)

C2_Witness ==
    /\ pc = "done"
    /\ Len(all_files) >= 2
    /\ Stripped(processed[Len(processed)].text) = <<>>
    /\ EndsWithNewline(OutputData)

\* C3 as stated: the list handed to the concatenator is the aggregate of the
\* per-token results in non-decreasing byte-wise order of the path strings.
C3_SortedByteWise ==
    AfterSort =>
        /\ SameBag(all_files, AggregateByName(inputs))
        /\ \A i \in 1..(Len(all_files) - 1) : BytesCmp(all_files[i], all_files[i + 1]) <= 0

\* C3, amended: the list handed to the concatenator is the aggregate of the
\* per-token results in non-decreasing order of PathBuf: component by
\* component, a root before ".", "." before a name, two names byte-wise.
C3_SortedByComponents ==
    AfterSort =>
        /\ SameBag(all_files, AggregateByName(inputs))
        /\ \A i \in 1..(Len(all_files) - 1) :
              ComponentsCmp(Components(all_files[i]), Components(all_files[i + 1])) <= 0

\* two neighbours of the sorted list that the byte-wise order would swap
C3_Witness ==
    /\ AfterSort
    /\ \E i \in 1..(Len(all_files) - 1) :
          /\ BytesCmp(all_files[i], all_files[i + 1]) > 0
          /\ \E j \in 1..Len(all_files[i]) :
                /\ j <= Len(all_files[i + 1])
                /\ SubSeq(all_files[i], 1, j - 1) = SubSeq(all_files[i + 1], 1, j - 1)
                /\ all_files[i][j] = SLASH
                /\ all_files[i + 1][j] = DOT

\* C4: the files are written in the order, and the output has the content,
\* of the reference run, whatever the order of the tokens and of the
\* directory entries was.
C4_OrderIndependentOfInputOrder ==
    AfterSort =>
        /\ NodesOf(all_files) = NodesOf(ReferenceFiles)
        /\ pc = "done" =>
              /\ NodesOf([i \in 1..Len(processed) |-> processed[i].path])
                    = NodesOf(ReferenceFiles)
              /\ OutputData = ReferenceOutput(ReferenceFiles, 1, <<>>)

\* a finished run whose tokens were not given in byte order
C4_Witness ==
    /\ pc = "done"
    /\ Len(inputs) = 2
    /\ BytesCmp(inputs[1], inputs[2]) > 0
    /\ ByNameResult(inputs[1]).files # <<>>
    /\ ByNameResult(inputs[2]).files # <<>>
    /\ ByNameResult(inputs[1]).files # ByNameResult(inputs[2]).files

\* how many times the tokens produce path p
TimesProduced(p) ==
    LET n == Len(inputs)
        per == [k \in 1..n |-> Count(ByNameResult(inputs[k]).files, p)]
        sum[k \in 0..n] == IF k = 0 THEN 0 ELSE sum[k - 1] + per[k]
    IN  sum[n]

\* C5: a path the tokens produce k times in all is k times in the sorted
\* list, and in a finished run it has been read and written k times.
C5_DuplicatesKept ==
    AfterSort =>
        \A p \in UNION {{ByNameResult(inputs[k]).files[i] :
                            i \in 1..Len(ByNameResult(inputs[k]).files)} :
                        k \in 1..Len(inputs)} :
            /\ Count(all_files, p) = TimesProduced(p)
            /\ pc = "done" =>
                  Count([i \in 1..Len(processed) |-> processed[i].path], p) = TimesProduced(p)

\* a finished run in which two different tokens produced the same path
C5_Witness ==
    /\ pc = "done"
    /\ Len(inputs) = 2
    /\ inputs[1] # inputs[2]
    /\ \E i \in 1..(Len(all_files) - 1) : all_files[i] = all_files[i + 1]

\* C6: when all tokens resolved and the aggregate is empty the run can only
\* warn and end; it ends without an error, the filesystem - the output path
\* with it - as it was, no file read; concatenate_files is never entered
\* with an empty list.
C6_NothingToDoLeavesOutput ==
    /\ pc = "warned" => (fs = fs0 /\ all_files = <<>> /\ processed = <<>> /\ err = "")
    /\ (pc = "resolved" /\ all_files = <<>>) => (ENABLED NothingToDo /\ ~ENABLED SortAll)
    /\ AfterSort => all_files # <<>>

\* the run ended with the warning and the old output file is still there
C6_Witness ==
    /\ pc = "warned"
    /\ OutputNode \in DOMAIN fs
    /\ fs[OutputNode].data = OldOutput
    /\ \A k \in 1..Len(resolved) : resolved[k].ok

\* the first half of C7: input-not-found exactly for a token without '*'
\* that names neither a directory nor a file
NotFoundExactly(k) ==
    (resolved[k].err = "InputNotFound") <=>
        (~HasStar(TokenAt(k)) /\ ~IsDir(fs0, TokenAt(k)) /\ ~IsFile(fs0, TokenAt(k)))

\* a wildcard token whose directory part is no directory: it matches nothing
NoSuchDirectory(k) ==
    /\ HasStar(TokenAt(k))
    /\ HasSlash(TokenAt(k))
    /\ ~HasStar(DirPart(TokenAt(k)))
    /\ ~IsDir(fs0, DirPart(TokenAt(k)))

PatternHolds(filename, pattern) ==
    LET n == Len(pattern)
        m == Len(filename)
        first == n >= 1 /\ pattern[1] = STAR
        last == n >= 1 /\ pattern[n] = STAR
    IN  IF n = 1 /\ first THEN TRUE
        ELSE IF first /\ last
        THEN \E i \in 0..m : /\ i + (n - 2) <= m
                             /\ \A j \in 1..(n - 2) : filename[i + j] = pattern[j + 1]
        ELSE IF first
        THEN /\ n - 1 <= m
             /\ \A j \in 1..(n - 1) : filename[m - (n - 1) + j] = pattern[j + 1]
        ELSE IF last
        THEN /\ n - 1 <= m
             /\ \A j \in 1..(n - 1) : filename[j] = pattern[j]
        ELSE m = n /\ \A j \in 1..n : filename[j] = pattern[j]

\* C8: matches_pattern returns true for "*"; for "*x*" iff the name contains
\* x; for "*x" iff it ends with x; for "x*" iff it starts with x; otherwise
\* iff it equals the pattern; every other '*' is an ordinary byte and the
\* bytes are compared as they are.
C8_MatchesPatternShapes ==
    pc = "matched" => (pat_out = PatternHolds(pat_in[1], pat_in[2]))

\* "*a*" against a name that holds the 'a' in the middle, and an 'A' as well
C8_Witness ==
    /\ pc = "matched"
    /\ pat_in[2] = <<STAR, 97, STAR>>
    /\ pat_in[1] = <<65, 97, STAR>>
    /\ pat_out

\* the directories a listing of d reads
DirsRead(d) ==
    IF recursive THEN {n \in DirNodes(fs0) : Within(d, n)} ELSE {d}

\* the files a listing of d is to find
FilesBelow(d) ==
    {n \in FileNodes(fs0) :
        IF recursive THEN Within(d, n) ELSE SubSeq(n, 1, Len(n) - 1) = d}

\* C9: a token without '*' that names a directory resolves, when the
\* directories it reads are readable, to the regular files directly in it
\* (not recursive) or anywhere below it (recursive), each once; it fails
\* only when one of those directories cannot be read.
C9_DirectoryListing ==
    \A k \in 1..Len(resolved) :
        (IsDir(fs0, TokenAt(k)) /\ ~HasStar(TokenAt(k))) =>
            LET d == NodeOf(TokenAt(k))
            IN  IF \A n \in DirsRead(d) : fs0[n].readable
                THEN /\ resolved[k].ok
                     /\ NodeSet(resolved[k].files) = FilesBelow(d)
                     /\ Len(resolved[k].files) = Cardinality(FilesBelow(d))
                ELSE ~resolved[k].ok /\ resolved[k].err = "DirectoryReadError"

\* a directory with a file of its own and a file in a subdirectory, listed
C9_Witness ==
    \E k \in 1..Len(resolved) :
        /\ IsDir(fs0, TokenAt(k))
        /\ ~HasStar(TokenAt(k))
        /\ resolved[k].ok
        /\ \E n \in FileNodes(fs0) :
              /\ Within(NodeOf(TokenAt(k)), n)
              /\ Len(n) > Len(NodeOf(TokenAt(k))) + 1
              /\ (n \in NodeSet(resolved[k].files) <=> recursive)
        /\ resolved[k].files # <<>>

\* the files a bare wildcard is to find
FilesMatching(pattern) ==
    {n \in FilesBelow(CwdNode) : MatchesPattern(n[Len(n)], pattern)}

\* C10: a token with '*' and without separator that names no directory
\* resolves, when the directories it reads are readable, to the regular files
\* whose name satisfies matches_pattern directly in the working directory
\* (not recursive) or anywhere below it (recursive), each once.
C10_BareWildcard ==
    \A k \in 1..Len(resolved) :
        (HasStar(TokenAt(k)) /\ ~HasSlash(TokenAt(k)) /\ ~IsDir(fs0, TokenAt(k))) =>
            IF \A n \in DirsRead(CwdNode) : fs0[n].readable
            THEN /\ resolved[k].ok
                 /\ NodeSet(resolved[k].files) = FilesMatching(TokenAt(k))
                 /\ Len(resolved[k].files) = Cardinality(FilesMatching(TokenAt(k)))
            ELSE ~resolved[k].ok /\ resolved[k].err = "DirectoryReadError"

\* not recursive: a file in a subdirectory has a name that matches and is
\* not in the result, which is not empty
C10_Witness ==
    \E k \in 1..Len(resolved) :
        /\ HasStar(TokenAt(k))
        /\ ~HasSlash(TokenAt(k))
        /\ ~recursive
        /\ resolved[k].ok
        /\ resolved[k].files # <<>>
        /\ \E n \in FileNodes(fs0) :
              /\ Within(CwdNode, n)
              /\ Len(n) > Len(CwdNode) + 1
              /\ MatchesPattern(n[Len(n)], TokenAt(k))
              /\ n \notin NodeSet(resolved[k].files)

\* the run ended because a token failed to resolve
ResolveFailed ==
    /\ pc = "error"
    /\ err \notin {"OutputCreateError", "FileReadError", "OutputWriteError"}

\* C11: a token that fails to resolve ends the run: the run is in the error
\* state at the first token that fails, nothing can follow - no later token
\* is resolved, no file is read - and the filesystem, the output path with
\* it, is as it was, whatever the tokens before it resolved to.
C11_ResolveFailureIsFatal ==
    /\ ResolveFailed =>
          /\ Len(resolved) = next_input + 1
          /\ next_input < Len(inputs)
          /\ ~resolved[Len(resolved)].ok
          /\ resolved[Len(resolved)].err = err
          /\ \A k \in 1..next_input : resolved[k].ok
          /\ processed = <<>>
          /\ fs = fs0
          /\ ~ENABLED Next
    /\ (\E k \in 1..Len(resolved) : ~resolved[k].ok) => ResolveFailed

\* the second token failed after the first had found files, a later run of
\* which would have truncated an output file that is there
C11_Witness ==
    /\ ResolveFailed
    /\ Len(inputs) = 2
    /\ next_input = 1
    /\ all_files # <<>>
    /\ OutputNode \in DOMAIN fs
    /\ fs[OutputNode].data = OldOutput

\* the bytes the write loop has put out for the files read so far, the
\* separator after each of them
WrittenSoFar ==
    LET texts == [i \in 1..Len(processed) |-> Stripped(processed[i].text)]
    IN  IF texts = <<>> THEN <<>> ELSE JoinLines(texts) \o <<NL>>

\* C12: when the read of file k fails in the write loop the run is in the
\* error state and nothing can follow; the files before k have been read and
\* no other; the output file is left holding what was written for files
\* 1..k-1, the separator newline after file k-1 included.
C12_ReadFailureLeavesPartialOutput ==
    (pc = "error" /\ err = "FileReadError") =>
        /\ index < Len(all_files)
        /\ ~CanRead(fs, all_files[index + 1])
        /\ Len(processed) = index
        /\ \A i \in 1..index : processed[i].path = all_files[i]
        /\ OutputNode \in DOMAIN fs
        /\ OutputData = WrittenSoFar
        /\ \A n \in DOMAIN fs0 : n # OutputNode => fs[n] = fs0[n]
        /\ ~ENABLED NextConcat

\* the second file of three could not be read; the output ends with the
\* separator written after the first
C12_Witness ==
    /\ pc = "error"
    /\ err = "FileReadError"
    /\ index = 1
    /\ Len(all_files) = 3
    /\ Stripped(processed[1].text) # <<>>
    /\ EndsWithNewline(OutputData)

\* the rules of the cascade, each decoder taken for what its name says: the
\* bytes it is given in that encoding, nothing looked for at their start
FirstAcceptingRule(bytes) ==
    LET after2 == SubSeq(bytes, 3, Len(bytes))
        after3 == SubSeq(bytes, 4, Len(bytes))
    IN  IF StartsWith(bytes, BomUtf16LE) THEN Utf16Decode(after2, TRUE).text
        ELSE IF StartsWith(bytes, BomUtf16BE) THEN Utf16Decode(after2, FALSE).text
        ELSE IF StartsWith(bytes, BomUtf8) /\ ~Utf8Decode(after3).errors
        THEN Utf8Decode(after3).text
        ELSE IF ~Utf8Decode(bytes).errors THEN Utf8Decode(bytes).text
        ELSE IF ~Utf16Decode(bytes, TRUE).errors THEN Utf16Decode(bytes, TRUE).text
        ELSE IF ~Utf16Decode(bytes, FALSE).errors THEN Utf16Decode(bytes, FALSE).text
        ELSE IF ~W1252Decode(bytes).errors THEN W1252Decode(bytes).text
        ELSE Utf8Decode(bytes).text

\* C13 as stated: the decoder returns the result of the first rule that
\* accepts the bytes: the byte-order marks (UTF-16LE / UTF-16BE of the bytes
\* after the mark, strict UTF-8 of the bytes after the mark), strict UTF-8,
\* UTF-16LE, UTF-16BE and windows-1252 if free of errors, the ISO-8859 and
\* the other legacy encodings, lossy UTF-8.
C13_FirstAcceptingRule ==
    pc = "decoded" =>
        processed[1].text = FirstAcceptingRule(fs0[NodeOf(all_files[1])].data)

\* C13, the part of it that holds: once the bytes are read decoding does not
\* fail, and bytes in which no decoder finds a byte-order mark of its own -
\* none at the start but the one rule 1 takes off, none right after a
\* UTF-16 mark - decode to the result of the first accepting rule.
C13_FirstAcceptingRuleWithoutInnerMark ==
    LET bytes == fs0[NodeOf(all_files[1])].data
        Marked(b) == StartsWith(b, BomUtf8) \/ StartsWith(b, BomUtf16LE)
                        \/ StartsWith(b, BomUtf16BE)
        inner == IF StartsWith(bytes, BomUtf16LE) \/ StartsWith(bytes, BomUtf16BE)
                 THEN Marked(SubSeq(bytes, 3, Len(bytes)))
                 ELSE StartsWith(bytes, BomUtf8)
                         /\ Utf8Decode(SubSeq(bytes, 4, Len(bytes))).errors
    IN  /\ pc = "error" => ~CanRead(fs0, all_files[1])
        /\ (pc = "decoded" /\ ~inner) => processed[1].text = FirstAcceptingRule(bytes)

\* bytes that are not UTF-8 and were taken for UTF-16LE
C13_Witness ==
    /\ pc = "decoded"
    /\ fs0[NodeOf(all_files[1])].data = <<255, 65>>
    /\ processed[1].text = <<16895>>

\* the first of the five rules that applies to the expanded token t
RuleOf(t) ==
    IF HasStar(t) /\ HasSlash(t) THEN 1
    ELSE IF IsDir(fs0, t) THEN 2
    ELSE IF HasStar(t) THEN 3
    ELSE IF IsFile(fs0, t) THEN 4
    ELSE 5

\* generic wildcard resolution of the whole token
GenericWildcard(t) ==
    IF recursive THEN CollectFilesWithWildcardRecursive(fs0, t, ByName(fs0))
    ELSE CollectFilesWithWildcard(fs0, t, ByName(fs0))

\* what the rule that applies to t gives
ByRule(t) ==
    LET rule == RuleOf(t)
        pattern == SubSeq(t, RFind(t, SLASH) + 1, Len(t))
    IN  IF rule = 1
        THEN IF IsDir(fs0, DirPart(t))
             THEN IF recursive
                  THEN CollectFilesRecursiveWithPattern(fs0, DirPart(t), pattern,
                                                        ByName(fs0), <<>>)
                  ELSE CollectFilesInDirectoryWithPattern(fs0, DirPart(t), pattern,
                                                          ByName(fs0))
             ELSE GenericWildcard(t)
        ELSE IF rule = 2
        THEN IF recursive THEN CollectFilesRecursive(fs0, t, ByName(fs0))
             ELSE CollectFilesInDirectory(fs0, t, ByName(fs0))
        ELSE IF rule = 3 THEN GenericWildcard(t)
        ELSE IF rule = 4 THEN Ok(<<t>>)
        ELSE Err("InputNotFound")

\* C14: every token resolves as the first rule that applies to it says:
\* (1) '*' and '/': the directory before the last '/' filtered by what is
\* after it, or generic wildcard resolution when that is no directory;
\* (2) a directory: its files; (3) '*': generic wildcard resolution;
\* (4) a regular file: that path alone; (5) failure. The result has the
\* rule's paths, as many times, or fails with its error.
C14_FirstRuleThatApplies ==
    \A k \in 1..Len(resolved) :
        LET want == ByRule(TokenAt(k))
        IN  /\ resolved[k].ok = want.ok
            /\ IF want.ok THEN SameBag(resolved[k].files, want.files)
               ELSE resolved[k].err = want.err

\* the two cases it names: a token with '*' and no '/' that is the name of a
\* directory gave the file in that directory, not the files whose names
\* match; one that is the name of a file gave the other matching file too
C14_Witness ==
    /\ Len(resolved) = 1
    /\ resolved[1].ok
    /\ ~HasSlash(TokenAt(1))
    /\ HasStar(TokenAt(1))
    /\ \/ /\ IsDir(fs0, TokenAt(1))
          /\ NodeSet(resolved[1].files) = {InCwd(<<TokenAt(1), <<97>> >>)}
       \/ /\ IsFile(fs0, TokenAt(1))
          /\ ~recursive
          /\ NodeSet(resolved[1].files) = {InCwd(<<TokenAt(1)>>), InCwd(<< <<97, 98>> >>)}

\* a token resolved as a wildcard
IsWildcardToken(t) == RuleOf(t) \in {1, 3}

\* the one directory of a wildcard token: the one named before its last
\* '/', the working directory when it has none
DirectoryOf(t) == IF HasSlash(t) THEN NodeOf(DirPart(t)) ELSE CwdNode

\* the regular files directly in the directory of t whose names satisfy
\* matches_pattern for the part of t after its last '/'
DirectChildrenMatching(t) ==
    {n \in FileNodes(fs0) :
        /\ SubSeq(n, 1, Len(n) - 1) = DirectoryOf(t)
        /\ MatchesPattern(n[Len(n)], SubSeq(t, RFind(t, SLASH) + 1, Len(t)))}

\* a wildcard token that is handed to glob: it has a '/' and what is
\* before the last one is no directory
GoesToGlob(t) == RuleOf(t) = 1 /\ ~IsDir(fs0, DirPart(t))

\* the regular files whose path from the working directory (from the root
\* for a pattern that starts with '/') has as many components as the
\* pattern, each matching its component of the pattern, '*' any bytes
MatchedComponentWise(t) ==
    LET pieces == NonEmptyPieces(Split(t, SLASH))
        base == IF StartsWith(t, <<SLASH>>) THEN <<>> ELSE CwdNode
    IN  {n \in FileNodes(fs0) :
            /\ Within(base, n)
            /\ Len(n) - Len(base) = Len(pieces)
            /\ \A i \in 1..Len(pieces) : GlobMatch(n[Len(base) + i], pieces[i])}

\* C15 as stated: without --recursive every wildcard token is resolved by
\* enumerating one directory - the one named before its last '/', or the
\* working directory - and applying matches_pattern to its direct children;
\* nothing is handed to glob, no file from elsewhere is returned.
C15_NeverGlob ==
    \A k \in 1..Len(resolved) :
        (~recursive /\ IsWildcardToken(TokenAt(k))) =>
            /\ resolved[k].ok \/ resolved[k].err = "DirectoryReadError"
            /\ resolved[k].ok =>
                  NodeSet(resolved[k].files) = DirectChildrenMatching(TokenAt(k))

\* C15, amended: without --recursive a wildcard token without '/', or with
\* an existing directory before its last '/', is resolved by enumerating
\* that one directory and applying matches_pattern to its direct children.
\* A wildcard token with a '/' and no directory before the last '/' is
\* handed to glob: a pattern glob rejects fails, any other yields the
\* regular files that match the pattern component by component, in whatever
\* directories the components before the last match.
C15_GlobOnlyWithoutDirectory ==
    \A k \in 1..Len(resolved) :
        (~recursive /\ IsWildcardToken(TokenAt(k))) =>
            IF ~GoesToGlob(TokenAt(k))
            THEN /\ resolved[k].ok \/ resolved[k].err = "DirectoryReadError"
                 /\ resolved[k].ok =>
                       /\ NodeSet(resolved[k].files) = DirectChildrenMatching(TokenAt(k))
                       /\ Len(resolved[k].files) = Cardinality(DirectChildrenMatching(TokenAt(k)))
            ELSE IF ~GlobValid(TokenAt(k))
            THEN ~resolved[k].ok /\ resolved[k].err = "InvalidGlobPattern"
            ELSE /\ resolved[k].ok \/ resolved[k].err = "GlobError"
                 /\ resolved[k].ok =>
                       NodeSet(resolved[k].files) = MatchedComponentWise(TokenAt(k))

\* glob found a file in a directory that the token does not name
C15_Witness ==
    /\ Len(resolved) = 1
    /\ ~recursive
    /\ resolved[1].ok
    /\ GoesToGlob(TokenAt(1))
    /\ \E n \in NodeSet(resolved[1].files) :
          SubSeq(n, 1, Len(n) - 1) # DirectoryOf(TokenAt(1))

\* not recursive, a directory named and enumerated, a file deeper in it
\* that matches left out
C15_DirectoryWitness ==
    /\ Len(resolved) = 1
    /\ ~recursive
    /\ resolved[1].ok
    /\ IsWildcardToken(TokenAt(1))
    /\ ~GoesToGlob(TokenAt(1))
    /\ HasSlash(TokenAt(1))
    /\ resolved[1].files # <<>>
    /\ \E n \in FileNodes(fs0) :
          /\ Within(DirectoryOf(TokenAt(1)), n)
          /\ Len(n) > Len(DirectoryOf(TokenAt(1))) + 1
          /\ n \notin NodeSet(resolved[1].files)

\* the bytes the write loop had put out when it came to read file number i
WrittenBefore(i) ==
    IF i = 1 THEN <<>>
    ELSE JoinLines([j \in 1..(i - 1) |-> Stripped(processed[j].text)]) \o <<NL>>

\* no file is read before the output file has been created or truncated
CreatedBeforeAnyRead ==
    /\ pc \in {"resolve", "resolved", "warned", "create"} => (processed = <<>> /\ fs = fs0)
    /\ (pc = "error" /\ err \notin {"FileReadError", "OutputWriteError"}) =>
          (processed = <<>> /\ fs = fs0)
    /\ pc \in {"write", "done"} => OutputNode \in DOMAIN fs

\* C16 as stated: the output file is created or truncated before any file
\* is read, and when it is one of the resolved files it is read as empty.
C16_OutputReadAsEmpty ==
    /\ CreatedBeforeAnyRead
    /\ \A i \in 1..Len(processed) :
          NodeOf(processed[i].path) = OutputNode => processed[i].text = <<>>

\* C16, amended: the output file is created or truncated before any file is
\* read, so when it is one of the resolved files its previous content is
\* never copied; it is read as it is at its turn: empty when it is the
\* first file of the sorted list, and otherwise holding what was written for
\* the files before it, which is then written once more.
C16_OutputReadAsWrittenSoFar ==
    /\ CreatedBeforeAnyRead
    /\ \A i \in 1..Len(processed) :
          NodeOf(processed[i].path) = OutputNode =>
              processed[i].text = Decode(WrittenBefore(i))

\* a finished run in which the old output file was the second of the files:
\* what was read from it is the first file's text, not its old content,
\* and not nothing
C16_Witness ==
    /\ pc = "done"
    /\ OutputNode \in DOMAIN fs0
    /\ fs0[OutputNode].data = OldOutput
    /\ Len(processed) >= 2
    /\ NodeOf(processed[2].path) = OutputNode
    /\ processed[2].text # <<>>
    /\ processed[2].text # Decode(OldOutput)

====
